---- MODULE Spec2Model ----
(***************************************************************************)
(* A model of diff-delta.c: the block index built over the reference       *)
(* buffer (delta_prepare), the greedy COPY/INSERT encoder (diff_delta) and  *)
(* its growing output buffer.  Buffers are sequences of bytes; C offsets    *)
(* are 0-based, so byte i of a buffer b is b[i + 1].                        *)
(***************************************************************************)
EXTENDS Integers, Sequences, FiniteSets, TLC

VARIABLES
    from_buf,   \* the reference: a buffer of Mem
    to_buf,     \* the target: a buffer of Mem
    max_size,   \* the cap argument (0: none)
    failAt,     \* environment: the allocation call that returns NULL (0: none)
    pc,         \* "call" | "index" | "alloc" | "loop" | "done" | "crash"
    heap,       \* [n: allocation calls so far, live: blocks, bad: invalid free seen]
    bdf,        \* bdfile_t: fphbits, fphash (pointer and buckets), cha
    pdata,      \* data - buf in the loop of delta_prepare
    out,        \* the bytes of the output buffer below outpos
    outp,       \* the out pointer (a heap block, 0 = NULL)
    outpos, outsize, data, inscnt, moff,
    oob,        \* a byte was written at an index >= outsize
    result,     \* "none" | "NULL" | "delta"
    delta_size  \* *delta_size

vars == <<from_buf, to_buf, max_size, failAt, pc, heap, bdf, pdata, out, outp, outpos, outsize,
          data, inscnt, moff, oob, result, delta_size>>

(***************************************************************************)
(* Program constants.                                                      *)
(***************************************************************************)
BLK_SIZE == 16
\* GR_PRIME = 0x9e370001 as two 16-bit halves
GR_PRIME_HI == 40503
GR_PRIME_LO == 1
\* COPYOP_SIZE(0xffffffff, 0xffffffff) = 4 + 2 + 1
MAX_OP_SIZE == 7
INIT_OUTSIZE == 8192
MAX_INSERT == 127
MAX_COPY == 65536
ADLER_BASE == 65521
\* the content of a reserved, not yet written output byte
Uninit == -1

MIN(a, b) == IF a < b THEN a ELSE b

RECURSIVE Pow2(_)
Pow2(n) == IF n = 0 THEN 1 ELSE 2 * Pow2(n - 1)

NZ(x) == IF x # 0 THEN 1 ELSE 0

Byte(x, k) == (x \div Pow2(8 * k)) % 256

(***************************************************************************)
(* adler32(adler, buf + start, len) of zlib (RFC 1950).  The 32-bit result *)
(* (s2 << 16) | s1 is kept as the pair <<s2, s1>> of its 16-bit halves.    *)
(***************************************************************************)
RECURSIVE adler32(_, _, _, _)
adler32(adler, buf, start, len) ==
    IF len = 0 THEN adler
    ELSE LET s1 == (adler[2] + buf[start + 1]) % ADLER_BASE
             s2 == (adler[1] + s1) % ADLER_BASE
         IN adler32(<<s2, s1>>, buf, start + 1, len - 1)

\* ((unsigned int)(v) * GR_PRIME) >> (32 - b), v and the product in halves
HASH(v, b) ==
    LET lo == v[2]
        hi == v[1]
        lomul == ((lo % 256) * GR_PRIME_HI
                  + (((lo \div 256) * GR_PRIME_HI) % 256) * 256) % 65536
        phi == (hi * GR_PRIME_LO + lomul) % 65536
        plo == (lo * GR_PRIME_LO) % 65536
    IN IF b <= 16 THEN phi \div Pow2(16 - b)
       ELSE phi * Pow2(b - 16) + plo \div Pow2(32 - b)

RECURSIVE hashbits_loop(_, _, _)
hashbits_loop(val, bits, size) ==
    IF val < size /\ bits < 32 THEN hashbits_loop(2 * val, bits + 1, size)
    ELSE bits

hashbits(size) ==
    LET bits == hashbits_loop(1, 0, size) IN IF bits # 0 THEN bits ELSE 1

(***************************************************************************)
(* The allocator: block n is the one returned by the n-th allocation call. *)
(***************************************************************************)
malloc(h) ==
    LET n == h.n + 1
        p == IF n = failAt THEN 0 ELSE n
    IN [ptr |-> p,
        heap |-> [h EXCEPT !.n = n,
                           !.live = IF p = 0 THEN @ ELSE @ \cup {p}]]

free(h, p) ==
    IF p = 0 THEN h
    ELSE IF p \in h.live THEN [h EXCEPT !.live = @ \ {p}]
    ELSE [h EXCEPT !.bad = TRUE]

\* realloc(p, size): NULL leaves p allocated, success releases p
realloc(h, p) ==
    LET r == malloc(h)
    IN IF r.ptr = 0 THEN r
       ELSE [ptr |-> r.ptr, heap |-> [r.heap EXCEPT !.live = @ \ {p}]]

(***************************************************************************)
(* The arena (chastore_t).  ancur is the chunk list, newest chunk first;   *)
(* each chunk is its heap block and its fill icurr.                        *)
(***************************************************************************)
SIZEOF_BDRECORD == 24

cha_init(isize, icount) ==
    [isize |-> isize, nsize |-> icount * isize, ancur |-> <<>>]

\* [ok, cha, heap]: ok = FALSE is the NULL return
cha_alloc(cha, h) ==
    IF cha.ancur = <<>> \/ cha.ancur[1].icurr = cha.nsize
    THEN LET m == malloc(h)
         IN IF m.ptr = 0
            THEN [ok |-> FALSE, cha |-> cha, heap |-> m.heap]
            ELSE [ok |-> TRUE,
                  cha |-> [cha EXCEPT !.ancur =
                              <<[ptr |-> m.ptr, icurr |-> cha.isize]>> \o @],
                  heap |-> m.heap]
    ELSE [ok |-> TRUE,
          cha |-> [cha EXCEPT !.ancur[1].icurr = @ + cha.isize],
          heap |-> h]

RECURSIVE cha_free_from(_, _, _)
cha_free_from(ancur, k, h) ==
    IF k > Len(ancur) THEN h
    ELSE cha_free_from(ancur, k + 1, free(h, ancur[k].ptr))

cha_free(cha, h) == cha_free_from(cha.ancur, 1, h)

(***************************************************************************)
(* delta_prepare.  A bucket of fphash is its chain, head first; a record   *)
(* is [fp, ptr] with ptr the offset of its block in the reference.         *)
(***************************************************************************)
\* the walk started at the rounded size, the step back from top forgotten
prepare_start_top(bufsize) == (bufsize \div BLK_SIZE) * BLK_SIZE

\* where the descending walk starts
prepare_start(bufsize) ==
    LET d == (bufsize \div BLK_SIZE) * BLK_SIZE
    IN IF d = bufsize THEN d - BLK_SIZE ELSE d

\* the record linked at the tail of its chain
chain_link_tail(chain, brec) == Append(chain, brec)

\* brec->next = fphash[i]; fphash[i] = brec
chain_link(chain, brec) == <<brec>> \o chain

\* brec->fp = adler32(0, data, MIN(BLK_SIZE, top - data)) at data = buf + p
block_fp(buf, p) == adler32(<<0, 0>>, buf, p, MIN(BLK_SIZE, Len(buf) - p))

NoBdf == [fphbits |-> 0, fphash |-> <<>>, fphash_ptr |-> 0,
          cha |-> cha_init(0, 0)]

\* the bucket array of delta_prepare, all heads NULL, and the arena
new_bdf(bufsize, ptr) ==
    LET fphbits == hashbits(bufsize \div BLK_SIZE + 1)
        hsize == Pow2(fphbits)
    IN [fphbits |-> fphbits,
        fphash |-> [i \in 0 .. hsize - 1 |-> <<>>],
        fphash_ptr |-> ptr,
        cha |-> cha_init(SIZEOF_BDRECORD, hsize \div 4 + 1)]

\* the bucket array freed, the arena forgotten
delta_cleanup_leak(b, h) == free(h, b.fphash_ptr)

delta_cleanup(b, h) == cha_free(b.cha, free(h, b.fphash_ptr))

(***************************************************************************)
(* diff_delta: the pure parts.                                             *)
(***************************************************************************)
\* the size of the copy opcode for offset o and size s
COPYOP_SIZE(o, s) ==
    NZ(Byte(o, 0)) + NZ(Byte(o, 1)) + NZ(Byte(o, 2)) + NZ(Byte(o, 3))
    + NZ(Byte(s, 0)) + NZ(Byte(s, 1)) + 1

\* out[outpos++] = size; size >>= 7; while (size) { out[outpos - 1] |= 0x80; ... }
RECURSIVE size_bytes(_)
size_bytes(size) ==
    LET b == size % 256
        rest == size \div 128
    IN IF rest = 0 THEN <<b>>
       ELSE <<IF b >= 128 THEN b ELSE b + 128>> \o size_bytes(rest)

first_outsize(max) ==
    IF max # 0 /\ INIT_OUTSIZE >= max THEN max + MAX_OP_SIZE + 1
    ELSE INIT_OUTSIZE

next_outsize(osize, max) ==
    LET n == (osize * 3) \div 2
    IN IF max # 0 /\ n >= max THEN max + MAX_OP_SIZE + 1 ELSE n

\* the cap compared as the capacity is, MAX_OP_SIZE beyond max
over_cap_slack(opos, max) == max # 0 /\ opos > max + MAX_OP_SIZE

over_cap(opos, max) == max # 0 /\ opos > max

\* the number of leading bytes on which ref + p and tgt + d agree, at most hi;
\* the first lo bytes are known to agree (the loop of equal bytes, by halving)
RECURSIVE equal_run(_, _, _, _, _, _)
equal_run(ref, tgt, p, d, lo, hi) ==
    IF lo = hi THEN lo
    ELSE LET mid == (lo + hi + 1) \div 2
         IN IF \A j \in lo .. mid - 1 : ref[p + j + 1] = tgt[d + j + 1]
            THEN equal_run(ref, tgt, p, d, mid, hi)
            ELSE equal_run(ref, tgt, p, d, lo, mid - 1)

\* the extension stopped at the end of the block
match_limit_block(ref, tgt, p, d) ==
    MIN(BLK_SIZE, MIN(Len(ref) - p, Len(tgt) - d))

\* the most csize can be: what is left of the reference and of the target
match_limit(ref, tgt, p, d) == MIN(Len(ref) - p, Len(tgt) - d)

\* the extension run one byte past the end of the target
match_size_past(ref, tgt, p, d) ==
    LET lim == MIN(Len(ref) - p, Len(tgt) - d)
        n == equal_run(ref, tgt, p, d, 0, lim)
    IN IF n = lim /\ Len(ref) - p > n THEN n + 1 ELSE n

\* csize after the byte-wise extension from brec->ptr = ref + p and data = tgt + d
match_size(ref, tgt, p, d) ==
    equal_run(ref, tgt, p, d, 0, match_limit(ref, tgt, p, d))

\* whether a candidate of size csize replaces the best so far
better(csize, msize) == csize > msize

\* for (brec = bdf.fphash[i]; brec; brec = brec->next), from the k-th record
RECURSIVE chain_walk(_, _, _, _, _, _, _, _)
chain_walk(ref, tgt, chain, k, fp, d, msize, mo) ==
    IF k > Len(chain) THEN [msize |-> msize, moff |-> mo]
    ELSE IF chain[k].fp # fp
         THEN chain_walk(ref, tgt, chain, k + 1, fp, d, msize, mo)
    ELSE LET csize == match_size(ref, tgt, chain[k].ptr, d)
         IN IF ~better(csize, msize)
            THEN chain_walk(ref, tgt, chain, k + 1, fp, d, msize, mo)
            ELSE IF csize >= MAX_COPY
                 THEN [msize |-> MAX_COPY, moff |-> chain[k].ptr]
            ELSE chain_walk(ref, tgt, chain, k + 1, fp, d, csize, chain[k].ptr)

\* fp = adler32(0, data, MIN(top - data, BLK_SIZE)) at data = tgt + d
target_fp(tgt, d) == adler32(<<0, 0>>, tgt, d, MIN(Len(tgt) - d, BLK_SIZE))

\* msize and moff after the probe of the index at data = tgt + d
find_match(ref, tgt, b, d, mo) ==
    LET fp == target_fp(tgt, d)
        i == HASH(fp, b.fphbits)
    IN chain_walk(ref, tgt, b.fphash[i], 1, fp, d, 0, mo)

\* a COPY emitted for any match, whatever it costs
use_insert_any(msize, mo) == msize = 0

use_insert(msize, mo) == msize = 0 \/ msize < COPYOP_SIZE(mo, msize)

\* out[outpos - inscnt - 1] = inscnt
backfill(o, cnt) == [o EXCEPT ![Len(o) - cnt] = cnt]

\* the pending length byte left as it was reserved
flush_insert_none(o, cnt) == o

flush_insert(o, cnt) == IF cnt # 0 THEN backfill(o, cnt) ELSE o

\* the literal path: [out, inscnt]
emit_insert(o, cnt, byte) ==
    LET o1 == IF cnt = 0 THEN Append(o, Uninit) ELSE o
        o2 == Append(o1, byte)
        c2 == cnt + 1
    IN IF c2 = MAX_INSERT
       THEN [out |-> backfill(o2, c2), inscnt |-> 0]
       ELSE [out |-> o2, inscnt |-> c2]

Present(b) == IF b # 0 THEN <<b>> ELSE <<>>

\* the two size bits of the opcode byte exchanged
copy_bytes_swapped(mo, msize) ==
    LET i == 128 + NZ(Byte(mo, 0)) + 2 * NZ(Byte(mo, 1)) + 4 * NZ(Byte(mo, 2))
             + 8 * NZ(Byte(mo, 3)) + 32 * NZ(Byte(msize, 0))
             + 16 * NZ(Byte(msize, 1))
    IN <<i>> \o Present(Byte(mo, 0)) \o Present(Byte(mo, 1))
       \o Present(Byte(mo, 2)) \o Present(Byte(mo, 3))
       \o Present(Byte(msize, 0)) \o Present(Byte(msize, 1))

\* the bytes of the copy opcode for (mo, msize)
copy_bytes(mo, msize) ==
    LET i == 128 + NZ(Byte(mo, 0)) + 2 * NZ(Byte(mo, 1)) + 4 * NZ(Byte(mo, 2))
             + 8 * NZ(Byte(mo, 3)) + 16 * NZ(Byte(msize, 0))
             + 32 * NZ(Byte(msize, 1))
    IN <<i>> \o Present(Byte(mo, 0)) \o Present(Byte(mo, 1))
       \o Present(Byte(mo, 2)) \o Present(Byte(mo, 3))
       \o Present(Byte(msize, 0)) \o Present(Byte(msize, 1))

(***************************************************************************)
(* Inputs.                                                                 *)
(***************************************************************************)
MaxLen == 2
MaxCap == 7
MaxFail == 4
MaxTail == 3

Bytes == {0, 1}

SmallBufs == UNION {[1 .. n -> Bytes] : n \in 0 .. MaxLen}

\* the sequence of the n bytes f[1], ..., f[n]
Buf(f, n) == SubSeq(f, 1, n)

Zeros(n) == Buf([i \in 1 .. n |-> 0], n)
\* every 16-byte block differs from its neighbours
Ramp(n) == Buf([i \in 1 .. n |-> (i - 1) % 251], n)
\* block k filled with k + 1
Fill(n) == Buf([i \in 1 .. n |-> (((i - 1) \div BLK_SIZE) % 251) + 1], n)
\* literals that no block of a one-byte reference matches
Lits(n) == Buf([i \in 1 .. n |-> (i % 7) + 1], n)

Case(r, t, m, f) == [R |-> r, T |-> t, m |-> m, f |-> f]

SmallCases ==
    {Case(r, t, m, 0) : r \in SmallBufs, t \in SmallBufs, m \in 0 .. MaxCap}
    \cup {Case(r, t, 0, f) : r \in SmallBufs, t \in SmallBufs, f \in 1 .. MaxFail}

A16 == Ramp(BLK_SIZE)
\* two blocks of equal adler32 that agree on their first two bytes only
Coll1 == <<5, 5, 1, 2, 1>> \o Zeros(BLK_SIZE - 5)
Coll2 == <<5, 5, 2, 0, 2>> \o Zeros(BLK_SIZE - 5)

\* a buffer encoded against itself: a block and more, a full COPY and more
IdentityBufs ==
    {Ramp(BLK_SIZE + r) : r \in 0 .. MaxTail}
    \cup {Zeros(BLK_SIZE + r) : r \in 0 .. MaxTail}
    \cup {Ramp(MAX_COPY - 1)}
    \cup {Ramp(MAX_COPY + r) : r \in 0 .. MaxTail}

IdentityCases == {Case(x, x, 0, 0) : x \in IdentityBufs}

\* references whose blocks repeat, short matches, matches of no gain
MatchCases ==
    {Case(A16 \o A16 \o A16, A16, 0, 0),
     Case(A16 \o A16 \o A16, A16 \o A16, 0, 0),
     Case(A16 \o Zeros(BLK_SIZE) \o A16 \o A16, A16 \o A16, 0, 0),
     Case(A16, <<88, 89, 90>> \o A16, 0, 0),
     Case(A16, A16 \o <<33>>, 0, 0),
     Case(Zeros(BLK_SIZE) \o A16, <<9>> \o A16 \o <<9>>, 0, 0),
     Case(A16 \o <<7>>, <<9, 7>>, 0, 0),
     Case(Zeros(1024), Zeros(2048), 0, 0),
     Case(<<0, 0>>, <<1>> \o Zeros(BLK_SIZE) \o <<1>>, 0, 0),
     Case(Coll2, <<7>> \o Coll1 \o <<7>>, 0, 0)}

\* literal runs around the 0x7f limit, alone and around a COPY, capped or not
RunCases ==
    {Case(<<200>>, Lits(n), 0, 0) : n \in {126, 127, 128, 255}}
    \cup {Case(<<200>>, Lits(127), m, 0) : m \in {129, 130, 131}}
    \cup {Case(A16, Lits(130) \o A16 \o <<9>>, m, 0) : m \in {0, 152, 153}}

\* deltas that outgrow the first 8192 bytes of out
GrowCases ==
    {Case(<<200>>, Lits(8125), m, 0) : m \in {0, 8191, 8192, 8200}}
    \cup {Case(<<200>>, Lits(8125), 0, 4)}

\* a long header and a long first opcode under a small cap
BigRef == Fill(16384)

CapCases ==
    {Case(BigRef, SubSeq(BigRef, 273, 529), m, 0) : m \in {0, 1, 10}}

\* an allocation that fails with the index partly built, or built
FailCases == {Case(Ramp(47), Ramp(20), 0, f) : f \in 1 .. MaxFail}

Cases ==
    SmallCases \cup IdentityCases \cup MatchCases \cup RunCases
    \cup GrowCases \cup CapCases \cup FailCases

RECURSIVE SetToSeq(_)
SetToSeq(S) ==
    IF S = {} THEN <<>>
    ELSE LET x == CHOOSE y \in S : TRUE IN <<x>> \o SetToSeq(S \ {x})

\* the buffers the calls are made on; a buffer pointer is its place in Mem
Mem == SetToSeq({c.R : c \in Cases} \cup {c.T : c \in Cases})

Ptr(b) == CHOOSE i \in 1 .. Len(Mem) : Mem[i] = b

\* from_buf[0 .. from_size) and to_buf[0 .. to_size)
R == Mem[from_buf]
T == Mem[to_buf]

(***************************************************************************)
(* The state machine.                                                      *)
(***************************************************************************)
Init ==
    \E c \in Cases :
        /\ from_buf = Ptr(c.R) /\ to_buf = Ptr(c.T)
        /\ max_size = c.m /\ failAt = c.f
        /\ pc = "call"
        /\ heap = [n |-> 0, live |-> {}, bad |-> FALSE]
        /\ bdf = NoBdf /\ pdata = 0
        /\ out = <<>> /\ outp = 0 /\ outpos = 0 /\ outsize = 0
        /\ data = 0 /\ inscnt = 0 /\ moff = 0
        /\ oob = FALSE
        /\ result = "none" /\ delta_size = 0

Return(h, res) ==
    /\ heap' = h
    /\ result' = res
    /\ pc' = "done"

\* if (!from_size || !to_size || delta_prepare(...)) return NULL: the size test
\* and delta_prepare up to its loop
Prepare ==
    /\ pc = "call"
    /\ IF Len(R) = 0 \/ Len(T) = 0
       THEN /\ Return(heap, "NULL")
            /\ UNCHANGED <<bdf, pdata>>
       ELSE LET m == malloc(heap)
            IN IF m.ptr = 0
               THEN /\ Return(m.heap, "NULL")
                    /\ UNCHANGED <<bdf, pdata>>
               ELSE /\ heap' = m.heap
                    /\ bdf' = new_bdf(Len(R), m.ptr)
                    /\ pdata' = prepare_start(Len(R))
                    /\ pc' = "index"
                    /\ UNCHANGED result
    /\ UNCHANGED <<from_buf, to_buf, max_size, failAt, out, outp, outpos, outsize, data,
                   inscnt, moff, oob, delta_size>>

\* one iteration of for ( ; data >= buf; data -= BLK_SIZE) of delta_prepare,
\* and its return once data < buf
Index ==
    /\ pc = "index"
    /\ LET a == cha_alloc(bdf.cha, heap)
           fp == block_fp(R, pdata)
           i == HASH(fp, bdf.fphbits)
           brec == [fp |-> fp, ptr |-> pdata]
       IN IF ~a.ok
          THEN /\ Return(free(cha_free(a.cha, a.heap), bdf.fphash_ptr), "NULL")
               /\ UNCHANGED <<bdf, pdata>>
          ELSE /\ heap' = a.heap
               /\ bdf' = [bdf EXCEPT !.cha = a.cha,
                                     !.fphash[i] = chain_link(@, brec)]
               /\ pdata' = pdata - BLK_SIZE
               /\ pc' = IF pdata - BLK_SIZE >= 0 THEN "index" ELSE "alloc"
               /\ UNCHANGED result
    /\ UNCHANGED <<from_buf, to_buf, max_size, failAt, out, outp, outpos, outsize, data,
                   inscnt, moff, oob, delta_size>>

\* a write past the end of the buffer is undefined: the bytes may land beyond
\* the block, or the process may stop
Landed(overflow, normal) ==
    \E lands \in (IF overflow THEN BOOLEAN ELSE {TRUE}) :
        IF lands THEN normal
        ELSE /\ pc' = "crash"
             /\ UNCHANGED <<heap, result, outp, outsize>>

\* the allocation of out and the two size fields
Begin ==
    /\ pc = "alloc"
    /\ LET size == first_outsize(max_size)
           m == malloc(heap)
           hdr == size_bytes(Len(R)) \o size_bytes(Len(T))
       IN IF m.ptr = 0
          THEN /\ Return(delta_cleanup(bdf, m.heap), "NULL")
               /\ UNCHANGED <<out, outp, outpos, outsize, oob>>
          ELSE /\ out' = hdr
               /\ outpos' = Len(hdr)
               /\ oob' = (Len(hdr) > size)
               /\ Landed(Len(hdr) > size,
                         /\ heap' = m.heap
                         /\ outp' = m.ptr
                         /\ outsize' = size
                         /\ pc' = "loop"
                         /\ UNCHANGED result)
    /\ data' = 0 /\ inscnt' = 0 /\ moff' = 0
    /\ UNCHANGED <<from_buf, to_buf, max_size, failAt, bdf, pdata, delta_size>>

\* one iteration of while (data < top), the growth of out included
Iterate ==
    /\ pc = "loop"
    /\ data < Len(T)
    /\ LET m == find_match(R, T, bdf, data, moff)
           ins == use_insert(m.msize, m.moff)
           e == emit_insert(out, inscnt, T[data + 1])
           o == IF ins THEN e.out
                ELSE flush_insert(out, inscnt) \o copy_bytes(m.moff, m.msize)
           opos == Len(o)
           grow == opos >= outsize - MAX_OP_SIZE
           r == realloc(heap, outp)
       IN /\ out' = o
          /\ outpos' = opos
          /\ data' = IF ins THEN data + 1 ELSE data + m.msize
          /\ inscnt' = IF ins THEN e.inscnt ELSE 0
          /\ moff' = IF ins THEN m.moff ELSE m.moff \div Pow2(24)
          /\ oob' = (oob \/ opos > outsize)
          /\ Landed(opos > outsize,
                    IF ~grow
                    THEN /\ pc' = "loop"
                         /\ UNCHANGED <<heap, result, outp, outsize>>
                    ELSE /\ outsize' = next_outsize(outsize, max_size)
                         /\ IF over_cap(opos, max_size)
                            THEN /\ Return(delta_cleanup(bdf, free(heap, outp)), "NULL")
                                 /\ UNCHANGED outp
                            ELSE IF r.ptr = 0
                            THEN /\ Return(delta_cleanup(bdf, free(r.heap, outp)), "NULL")
                                 /\ UNCHANGED outp
                            ELSE /\ heap' = r.heap
                                 /\ outp' = r.ptr
                                 /\ pc' = "loop"
                                 /\ UNCHANGED result)
    /\ UNCHANGED <<from_buf, to_buf, max_size, failAt, bdf, pdata, delta_size>>

\* the last backfill, delta_cleanup and the return of out
Finish ==
    /\ pc = "loop"
    /\ data >= Len(T)
    /\ out' = flush_insert(out, inscnt)
    /\ delta_size' = outpos
    /\ Return(delta_cleanup(bdf, heap), "delta")
    /\ UNCHANGED <<from_buf, to_buf, max_size, failAt, bdf, pdata, outp, outpos, outsize,
                   data, inscnt, moff, oob>>

Next == Prepare \/ Index \/ Begin \/ Iterate \/ Finish

Spec == Init /\ [][Next]_vars

(***************************************************************************)
(* The delta as its reader sees it: two base-128 sizes, then INSERT n and  *)
(* COPY (off, size) opcodes, a COPY size of 0 meaning 0x10000.             *)
(***************************************************************************)
\* the size field at d[i ..]: [ok, val, next]
RECURSIVE read_size(_, _, _)
read_size(d, i, shift) ==
    IF i > Len(d) \/ d[i] < 0 THEN [ok |-> FALSE, val |-> 0, next |-> i]
    ELSE IF d[i] < 128
         THEN [ok |-> TRUE, val |-> d[i] * Pow2(shift), next |-> i + 1]
    ELSE LET r == read_size(d, i + 1, shift + 7)
         IN [r EXCEPT !.val = @ + (d[i] - 128) * Pow2(shift)]

Bit(c, k) == (c \div Pow2(k)) % 2

\* the opcode at d[i]: [ok, kind, at, lead, off, size, lits, next]
read_op(d, i) ==
    LET c == d[i]
        bad == [ok |-> FALSE, kind |-> "BAD", at |-> i - 1, lead |-> c,
                off |-> 0, size |-> 0, lits |-> <<>>, next |-> i]
    IN IF c <= 0 THEN bad
       ELSE IF c < 128
            THEN IF i + c > Len(d) THEN bad
                 ELSE [ok |-> \A j \in i + 1 .. i + c : d[j] >= 0,
                       kind |-> "INSERT", at |-> i - 1, lead |-> c, off |-> 0,
                       size |-> c, lits |-> SubSeq(d, i + 1, i + c),
                       next |-> i + c + 1]
       ELSE LET n0 == Bit(c, 0)
                n1 == n0 + Bit(c, 1)
                n2 == n1 + Bit(c, 2)
                n3 == n2 + Bit(c, 3)
                n4 == n3 + Bit(c, 4)
                n5 == n4 + Bit(c, 5)
            IN IF i + n5 > Len(d) \/ \E j \in i + 1 .. i + n5 : d[j] < 0
               THEN bad
               ELSE LET off == Bit(c, 0) * d[i + n0]
                               + Bit(c, 1) * d[i + n1] * 256
                               + Bit(c, 2) * d[i + n2] * 65536
                               + Bit(c, 3) * d[i + n3] * 16777216
                        sz == Bit(c, 4) * d[i + n4] + Bit(c, 5) * d[i + n5] * 256
                    IN [ok |-> TRUE, kind |-> "COPY", at |-> i - 1, lead |-> c,
                        off |-> off, size |-> IF sz = 0 THEN 65536 ELSE sz,
                        lits |-> <<>>, next |-> i + n5 + 1]

\* the opcodes from d[i] to the end of d, a malformed one last
RECURSIVE read_ops(_, _)
read_ops(d, i) ==
    IF i > Len(d) THEN <<>>
    ELSE LET op == read_op(d, i)
         IN IF ~op.ok THEN <<op>> ELSE <<op>> \o read_ops(d, op.next)

\* [ok, from_size, to_size, ops]
read_delta(d) ==
    LET a == read_size(d, 1, 0)
        b == read_size(d, a.next, 0)
        ops == IF a.ok /\ b.ok THEN read_ops(d, b.next) ELSE <<>>
    IN [ok |-> a.ok /\ b.ok /\ \A k \in 1 .. Len(ops) : ops[k].ok,
        from_size |-> a.val, to_size |-> b.val, hdr |-> b.next - 1, ops |-> ops]

RECURSIVE sum_sizes(_, _)
sum_sizes(ops, k) ==
    IF k > Len(ops) THEN 0 ELSE ops[k].size + sum_sizes(ops, k + 1)

\* the target the opcodes rebuild from ref, <<-1>> where a COPY leaves ref
RECURSIVE apply_ops(_, _, _)
apply_ops(ref, ops, k) ==
    IF k > Len(ops) THEN <<>>
    ELSE (IF ops[k].kind = "INSERT" THEN ops[k].lits
          ELSE IF ops[k].off + ops[k].size > Len(ref) THEN <<-1>>
          ELSE SubSeq(ref, ops[k].off + 1, ops[k].off + ops[k].size))
         \o apply_ops(ref, ops, k + 1)

\* the returned buffer
Delta == SubSeq(out, 1, delta_size)

Returned == pc = "done" /\ result = "delta"

\* the opcodes of the returned buffer
Ops == read_delta(Delta).ops

IsCopy(op) == op.ok /\ op.kind = "COPY"

IsInsert(op) == op.ok /\ op.kind = "INSERT"

\* the target offset at which opcode k starts
target_pos(ops, k) == sum_sizes(SubSeq(ops, 1, k - 1), 1)

-----------------------------------------------------------------------------
\* C1 (round trip): with max_size = 0, a returned delta parses as a header
\* carrying the two sizes followed by well-formed opcodes, and applying the
\* opcodes to the reference rebuilds the target byte for byte.
RoundTrip ==
    (Returned /\ max_size = 0) =>
        LET d == read_delta(Delta)
        IN /\ d.ok
           /\ d.from_size = Len(R)
           /\ d.to_size = Len(T)
           /\ apply_ops(R, d.ops, 1) = T

\* a returned delta that mixes literals with a COPY from a nonzero offset
RoundTripSeen ==
    /\ Returned /\ max_size = 0
    /\ \E k \in 1 .. Len(Ops) : IsCopy(Ops[k]) /\ Ops[k].off > 0
    /\ \E k \in 1 .. Len(Ops) : IsInsert(Ops[k])

\* C2 (cap): with max_size = m > 0 the call returns NULL or a delta of at
\* most m bytes.
CapRespected ==
    (pc = "done" /\ max_size > 0) =>
        \/ result = "NULL"
        \/ result = "delta" /\ delta_size <= max_size

\* a delta returned at exactly the cap, after the buffer had to grow
CapReached ==
    Returned /\ max_size > 0 /\ delta_size = max_size /\ heap.n > 3

\* C3 (opcodes in bounds): every COPY of a returned delta lies inside the
\* reference, the opcode sizes add up to the target size, and the encoder's
\* cursor never passes the end of the target.
OpcodesInBounds ==
    /\ data <= Len(T)
    /\ Returned =>
           /\ \A k \in 1 .. Len(Ops) :
                  IsCopy(Ops[k]) =>
                      /\ 1 <= Ops[k].size
                      /\ Ops[k].off + Ops[k].size <= Len(R)
           /\ sum_sizes(Ops, 1) = Len(T)

\* a COPY that ends on the last byte of the reference, the target going on
CopyToRefEnd ==
    /\ Returned
    /\ \E k \in 1 .. Len(Ops) :
           /\ IsCopy(Ops[k])
           /\ Ops[k].off + Ops[k].size = Len(R)
           /\ Ops[k].size < Len(T)

NumCopies == Cardinality({k \in 1 .. Len(Ops) : IsCopy(Ops[k])})

LiteralBound == Len(T) + ((Len(T) + MAX_INSERT - 1) \div MAX_INSERT)

\* C4 (bounded overhead), as stated: a returned delta is no longer than the
\* target plus one length byte per 127 target bytes plus the header.
OverheadAsStated ==
    Returned => delta_size <= LiteralBound + read_delta(Delta).hdr

\* C4 (bounded overhead), amended: a returned delta is no longer than the
\* target plus one length byte per 127 target bytes plus the header plus one
\* byte per COPY opcode.
OverheadPerCopy ==
    Returned => delta_size <= LiteralBound + read_delta(Delta).hdr + NumCopies

\* a delta past the stated bound and exactly at the amended one
OverheadTight ==
    /\ Returned
    /\ NumCopies > 0
    /\ delta_size > LiteralBound + read_delta(Delta).hdr
    /\ delta_size = LiteralBound + read_delta(Delta).hdr + NumCopies

Identity == R = T /\ Len(R) >= BLK_SIZE

ResourceDiscipline ==
    pc = "done" =>
        /\ ~heap.bad
        /\ (Len(R) = 0 \/ Len(T) = 0 \/ failAt \in 1 .. heap.n) => result = "NULL"
        /\ result = "NULL" => heap.live = {}
        /\ result = "delta" => outp # 0 /\ heap.live = {outp}

\* an arena chunk that could not be allocated with an earlier chunk in use
ChunkFailedMidIndex ==
    /\ pc = "done" /\ result = "NULL"
    /\ failAt = heap.n
    /\ Len(bdf.cha.ancur) >= 1
    /\ outp = 0
    /\ heap.live = {}

\* C7 (opcode framing): in a returned delta every byte is a written byte,
\* every opcode-leading byte is nonzero, an INSERT is a length byte n in
\* 1 .. 0x7f followed by n literals, and a COPY-leading byte has bit 7 set
\* and bit 6 clear.
OpcodeFraming ==
    Returned =>
        /\ \A i \in 1 .. delta_size : Delta[i] \in 0 .. 255
        /\ \A k \in 1 .. Len(Ops) :
               /\ Ops[k].ok
               /\ Ops[k].lead # 0
               /\ Ops[k].kind = "INSERT" =>
                      /\ Ops[k].lead \in 1 .. MAX_INSERT
                      /\ Len(Ops[k].lits) = Ops[k].lead
               /\ Ops[k].kind = "COPY" =>
                      Bit(Ops[k].lead, 7) = 1 /\ Bit(Ops[k].lead, 6) = 0

\* a run closed at 0x7f literals, the next closed by a COPY, the last by the
\* end of the target
ThreeBackfills ==
    /\ Returned
    /\ Len(Ops) >= 4
    /\ IsInsert(Ops[Len(Ops)])
    /\ \E k \in 1 .. Len(Ops) - 2 :
           /\ IsInsert(Ops[k]) /\ Ops[k].lead = MAX_INSERT
           /\ IsInsert(Ops[k + 1])
           /\ IsCopy(Ops[k + 2])

\* the offsets of the indexed blocks that carry the fingerprint of the
\* target window at offset d
Candidates(d) ==
    LET fp == target_fp(T, d)
        chain == bdf.fphash[HASH(fp, bdf.fphbits)]
    IN {chain[j].ptr : j \in {k \in 1 .. Len(chain) : chain[k].fp = fp}}

\* the length a COPY from reference offset p can have at target offset d
MatchLen(p, d) == MIN(match_size(R, T, p, d), MAX_COPY)

\* delta_prepare has returned 0
Prepared == pc = "alloc"

ChainsAscending ==
    \A i \in DOMAIN bdf.fphash :
        \A k \in 1 .. Len(bdf.fphash[i]) - 1 :
            bdf.fphash[i][k].ptr < bdf.fphash[i][k + 1].ptr

ChainsDescending ==
    \A i \in DOMAIN bdf.fphash :
        \A k \in 1 .. Len(bdf.fphash[i]) - 1 :
            bdf.fphash[i][k].ptr > bdf.fphash[i][k + 1].ptr

\* C8 (tie-break), as stated: later reference positions come earlier in
\* every chain delta_prepare leaves, and among the indexed blocks that give the longest match a
\* COPY uses the highest offset.
TieBreakAsStated ==
    /\ Prepared => ChainsDescending
    /\ Returned =>
           \A k \in 1 .. Len(Ops) :
               IsCopy(Ops[k]) =>
                   LET d == target_pos(Ops, k)
                   IN /\ Ops[k].off \in Candidates(d)
                      /\ \A q \in Candidates(d) :
                             \/ MatchLen(q, d) < Ops[k].size
                             \/ MatchLen(q, d) = Ops[k].size /\ q <= Ops[k].off

\* C8 (tie-break), amended: earlier reference positions come earlier in
\* every chain delta_prepare leaves, and among the indexed blocks that give the longest match
\* (capped at 0x10000) a COPY uses the lowest offset.
TieBreakLowest ==
    /\ Prepared => ChainsAscending
    /\ Returned =>
           \A k \in 1 .. Len(Ops) :
               IsCopy(Ops[k]) =>
                   LET d == target_pos(Ops, k)
                   IN /\ Ops[k].off \in Candidates(d)
                      /\ Ops[k].size = MatchLen(Ops[k].off, d)
                      /\ \A q \in Candidates(d) :
                             \/ MatchLen(q, d) < Ops[k].size
                             \/ MatchLen(q, d) = Ops[k].size /\ Ops[k].off <= q

\* a COPY chosen among several blocks that match equally long
TieSeen ==
    /\ Returned
    /\ \E k \in 1 .. Len(Ops) :
           /\ IsCopy(Ops[k])
           /\ \E q \in Candidates(target_pos(Ops, k)) :
                  /\ q # Ops[k].off
                  /\ MatchLen(q, target_pos(Ops, k)) = Ops[k].size

\* the offsets of all records of the index
Indexed ==
    UNION {{bdf.fphash[i][k].ptr : k \in 1 .. Len(bdf.fphash[i])} :
           i \in DOMAIN bdf.fphash}

IsBlockStart(p) == 0 <= p /\ p < Len(R) /\ p % BLK_SIZE = 0

\* the bucket of the fingerprint of the block at p holds a record for p
InBucket(p) ==
    LET chain == bdf.fphash[HASH(block_fp(R, p), bdf.fphbits)]
    IN \E k \in 1 .. Len(chain) : chain[k].ptr = p

\* every record sits once in the bucket of the fingerprint of its block
RecordsPlaced ==
    \A i \in DOMAIN bdf.fphash :
        \A k \in 1 .. Len(bdf.fphash[i]) :
            LET rec == bdf.fphash[i][k]
            IN /\ rec.fp = block_fp(R, rec.ptr)
               /\ HASH(rec.fp, bdf.fphbits) = i
               /\ \A l \in 1 .. Len(bdf.fphash[i]) :
                      l # k => bdf.fphash[i][l].ptr # rec.ptr

\* C9 (index coverage), as stated: the index holds the positions 0, B, 2B,
\* ... up to |R| - B, each once in the bucket of its fingerprint, and, when
\* |R| >= B is not a multiple of B, the partial block at |R| - B; nothing
\* else.
CoverageAsStated ==
    Prepared =>
        /\ RecordsPlaced
        /\ Indexed =
               {p \in 0 .. Len(R) - BLK_SIZE : p % BLK_SIZE = 0}
               \cup (IF Len(R) >= BLK_SIZE /\ Len(R) % BLK_SIZE # 0
                     THEN {Len(R) - BLK_SIZE} ELSE {})

\* C9 (index coverage), amended: the index holds exactly the positions 0, B,
\* 2B, ... below |R|, each once in the bucket of its fingerprint; the last
\* of them, at floor(|R| / B) * B when |R| is not a multiple of B, is the
\* partial block, fingerprinted over the |R| mod B bytes it has.
CoverageAligned ==
    Prepared =>
        /\ RecordsPlaced
        /\ \A i \in DOMAIN bdf.fphash :
               \A k \in 1 .. Len(bdf.fphash[i]) :
                   IsBlockStart(bdf.fphash[i][k].ptr)
        /\ \A j \in 0 .. (Len(R) - 1) \div BLK_SIZE : InBucket(j * BLK_SIZE)

\* an index whose last record is a partial block that follows full ones
PartialBlockIndexed ==
    /\ Prepared
    /\ Len(R) > BLK_SIZE
    /\ Len(R) % BLK_SIZE # 0
    /\ (Len(R) \div BLK_SIZE) * BLK_SIZE \in Indexed
    /\ Len(R) - BLK_SIZE \notin Indexed

\* C10 (output buffer bounds): every byte written to out lands below
\* outsize, and every iteration of the main loop starts with
\* outpos + MAX_OP_SIZE <= outsize.
WritesInBounds ==
    /\ ~oob
    /\ pc = "loop" => outpos + MAX_OP_SIZE <= outsize

====
